---- MODULE Spec2Model ----
(***************************************************************************)
(* The collection-view pipeline of biggus-griddus: Event, CollectionChange,*)
(* DataSource, FilterView, findInsertionIndex / SortView and WindowView.   *)
(* Items are objects 1..NObj; indices in change records are 0-based as in  *)
(* the TypeScript source, sequences are the usual 1-based TLA+ sequences.  *)
(***************************************************************************)
EXTENDS Integers, Sequences, FiniteSets, TLC

(* ------------------------------ bounds --------------------------------- *)
NObj == 3          \* item objects 1..NObj
NIds == 2          \* identifiers 1..NIds; objects o and o+NIds share an id
MaxVal == 1        \* an item's value (sort key, filter input) is in 0..MaxVal
MaxSubs == 1       \* the caller adds an item at most MaxSubs times (see Caps)
MaxWin == 2        \* window offsets and sizes passed by callers are <= MaxWin
MaxNeg == 1        \* the window offset is not driven below -MaxNeg
MaxLen == 3        \* no view and no consumer grows beyond MaxLen items
MaxRange == 2      \* addRange is called with at most MaxRange items
NCallbacks == 3    \* callback functions 1..NCallbacks
MaxCallbacks == 3  \* an event holds at most MaxCallbacks subscriptions

Obj == 1..NObj
Ids == 1..NIds
Vals == 0..MaxVal
NoItem == 0        \* no item: null, and undefined where the code treats both alike
UndefinedItem == -1 \* the item of a record made with an undefined item
NoId == 0          \* undefined / null identifier

VARIABLES
    val,              \* the current value of each item object
    items,            \* DataSource.items
    itemById,         \* DataSource.itemById
    subs,             \* number of closures DataSource subscribed on each item
    fItems,           \* FilterView.items
    itemFilterState,  \* FilterView.itemFilterState
    predicate,        \* FilterView.predicate
    sItems,           \* SortView.items
    sortColumn,       \* SortView.sortColumn
    sortDirection,    \* SortView.sortDirection
    offset,           \* WindowView.offset
    windowSize,       \* WindowView.windowSize
    sortSource,       \* SortView.source
    windowSource,     \* WindowView.source
    sCopy,            \* tbody.children of a Grid whose handler the sort view calls
    wCopy,            \* the copy kept by a consumer applying the window view's records
    consumers,        \* the views a consumer of records is subscribed to
    cap,              \* how many times the caller adds each item object at most
    lastOp,           \* the last call and whether it threw
    callbacks,        \* Event.callbacks of one event, apart from the pipeline
    everSubscribed,   \* the callbacks an unsubscribe closure exists for
    phase,            \* "idle", "raising" (inside raise) or "raised"
    loopIndex,        \* the variable i of the loop in raise
    invoked,          \* the callbacks the running raise has invoked, in order
    atStart,          \* the subscriber list when the running raise started
    collectorAt,      \* index in callbacks of the running collect's closure, or -1
    findItems,        \* findInsertionIndex called on its own: the argument items
    findTarget,       \* the argument target
    findVal,          \* the sort values the comparator closure reads
    findDir,          \* the direction the comparator closure reads
    findPc,           \* "idle", "called", "loop" (at the while test) or "done"
    minIndex,         \* the local minIndex
    maxIndex,         \* the local maxIndex
    findResult        \* the value returned

vars == <<val, items, itemById, subs, fItems, itemFilterState, predicate,
          sItems, sortColumn, sortDirection, offset, windowSize, sortSource,
          windowSource, sCopy, wCopy, consumers, cap, lastOp,
          callbacks, everSubscribed, phase, loopIndex, invoked, atStart, collectorAt,
          findItems, findTarget, findVal, findDir, findPc, minIndex, maxIndex,
          findResult>>

pipelineVars == <<val, items, itemById, subs, fItems, itemFilterState, predicate,
                  sItems, sortColumn, sortDirection, offset, windowSize, sortSource,
                  windowSource, sCopy, wCopy, consumers, cap, lastOp>>

eventVars == <<callbacks, everSubscribed, phase, loopIndex, invoked, atStart, collectorAt>>

findVars == <<findItems, findTarget, findVal, findDir, findPc, minIndex, maxIndex,
              findResult>>

(* ------------------------- JavaScript arrays --------------------------- *)
Min(a, b) == IF a < b THEN a ELSE b
Max(a, b) == IF a > b THEN a ELSE b
Abs(a) == IF a < 0 THEN -a ELSE a

\* items[i]: undefined outside 0..length-1
At(s, i) == IF 0 <= i /\ i < Len(s) THEN s[i + 1] ELSE NoItem

\* Array.prototype.indexOf: first 0-based position, -1 when absent
IndexOf(s, x) ==
    IF \E k \in 1..Len(s) : s[k] = x
    THEN (CHOOSE k \in 1..Len(s) : s[k] = x /\ \A j \in 1..(k - 1) : s[j] # x) - 1
    ELSE -1

\* the relative start of splice/slice: negative counts from the end
RelIndex(len, i) == IF i < 0 THEN Max(len + i, 0) ELSE Min(i, len)

\* s.splice(start, 1): the array afterwards
SpliceRemove(s, start) ==
    LET a == RelIndex(Len(s), start) IN
    IF a < Len(s) THEN SubSeq(s, 1, a) \o SubSeq(s, a + 2, Len(s)) ELSE s

\* s.splice(start, 1)[0]: the removed element
SpliceRemoved(s, start) == At(s, RelIndex(Len(s), start))

\* s.splice(start, 0, x): the array afterwards
SpliceInsert(s, start, x) ==
    LET a == RelIndex(Len(s), start) IN
    SubSeq(s, 1, a) \o <<x>> \o SubSeq(s, a + 1, Len(s))

\* s.slice(from, to)
Slice(s, from, to) ==
    LET a == RelIndex(Len(s), from)
        b == RelIndex(Len(s), to)
    IN  IF a < b THEN SubSeq(s, a + 1, b) ELSE <<>>

(* --------------------------- CollectionChange -------------------------- *)
\* a field the factory does not assign reads as undefined
CollectionChange(type) ==
    [type |-> type, item |-> NoItem, itemId |-> NoId, newIndex |-> -1,
     oldItem |-> NoItem, oldItemId |-> NoId, oldIndex |-> -1,
     isNewlyAdded |-> "undefined"]

ChangeInsert(item, itemId, index, isNewlyAdded) ==
    [CollectionChange("Insert") EXCEPT !.item = item, !.itemId = itemId,
        !.newIndex = index, !.isNewlyAdded = isNewlyAdded]

ChangeRemove(item, itemId, index) ==
    [CollectionChange("Remove") EXCEPT !.item = item, !.itemId = itemId,
        !.oldIndex = index]

\* the isNewlyAdded parameter is accepted and never stored
ChangeReplace(oldItem, oldItemId, oldIndex, newItem, newItemId, newIndex, isNewlyAdded) ==
    [CollectionChange("Replace") EXCEPT !.item = newItem, !.itemId = newItemId,
        !.newIndex = newIndex, !.oldItem = oldItem, !.oldItemId = oldItemId,
        !.oldIndex = oldIndex]

ChangeUpdate(item, itemId, index) ==
    [CollectionChange("Update") EXCEPT !.item = item, !.itemId = itemId,
        !.newIndex = index]

ChangeMove(item, itemId, oldIndex, newIndex) ==
    [CollectionChange("Move") EXCEPT !.item = item, !.itemId = itemId,
        !.oldIndex = oldIndex, !.newIndex = newIndex]

ChangeReset == CollectionChange("Reset")

ChangeScroll == CollectionChange("Scroll")

(* ------------------------------ items ---------------------------------- *)
\* the caller's itemIdAccessor: objects o and o + NIds carry the same id
GetItemId(o) == ((o - 1) % NIds) + 1

\* the running state of one call, threaded through the synchronous dispatch
Cur == [val |-> val, items |-> items, itemById |-> itemById, subs |-> subs,
        fItems |-> fItems, itemFilterState |-> itemFilterState,
        predicate |-> predicate, sItems |-> sItems, sortColumn |-> sortColumn,
        sortDirection |-> sortDirection, offset |-> offset,
        windowSize |-> windowSize, sCopy |-> sCopy, wCopy |-> wCopy,
        rOut |-> <<>>, fOut |-> <<>>, sOut |-> <<>>, wOut |-> <<>>,
        log |-> <<>>, thrown |-> FALSE]

\* an exception leaves the handler; nothing further of the call runs
Throw(S) == [S EXCEPT !.thrown = TRUE]

\* the order of events inside one call: a collection raises a record, a
\* subscribed handler is entered with it, a handler returns
Raised(S, view, ev) ==
    [S EXCEPT !.log = Append(@, [kind |-> "raise", who |-> view, ev |-> ev])]

Entered(S, who, ev) ==
    IF S.thrown THEN S
    ELSE [S EXCEPT !.log = Append(@, [kind |-> "call", who |-> who, ev |-> ev])]

Returned(S, who, ev) ==
    IF S.thrown THEN S
    ELSE [S EXCEPT !.log = Append(@, [kind |-> "return", who |-> who, ev |-> ev])]

\* source.getAllItems() of the view's upstream source
SourceItems(S, src) ==
    CASE src = "root" -> S.items
      [] src = "filter" -> S.fItems
      [] src = "sort" -> S.sItems
      [] OTHER -> <<>>

(* ---------------- a consumer applying records by index ----------------- *)
\* the consumer the documentation of CollectionChangeType describes: it keeps
\* a copy of the view's items and applies each record at the index it carries
\* the item at position i is removed; no item is at a position outside the copy
DeleteAt(copy, i) ==
    IF 0 <= i /\ i < Len(copy) THEN SubSeq(copy, 1, i) \o SubSeq(copy, i + 2, Len(copy))
    ELSE copy

\* copy.splice(i, 0, x): the item is kept wherever i points, at the end when
\* i lies beyond the copy
InsertAt(copy, i, x) == SpliceInsert(copy, i, x)

\* apply one record to the copy; pulled is getAllItems() at that moment
Patch(copy, ev, pulled) ==
    CASE ev.type = "Insert" -> InsertAt(copy, ev.newIndex, ev.item)
      [] ev.type = "Remove" -> DeleteAt(copy, ev.oldIndex)
      [] ev.type = "Replace" -> InsertAt(DeleteAt(copy, ev.oldIndex), ev.newIndex, ev.item)
      [] ev.type = "Move" -> InsertAt(DeleteAt(copy, ev.oldIndex), ev.newIndex, ev.item)
      [] ev.type = "Reset" -> pulled
      [] OTHER -> copy

(* ------------------------------ WindowView ----------------------------- *)
WindowGetAllItems(S) ==
    Slice(SourceItems(S, windowSource), S.offset, S.offset + S.windowSize)

\* Event.raise for the changed event of one collection of the pipeline: the
\* subscribers are called in place, in subscription order, before it returns
RECURSIVE raise(_, _, _)

\* changed.raise of the window view: its only subscriber is the consumer;
\* wOut collects the records the view raises during the call
WindowRaise(S, ev) == raise(S, "window", ev)

toWindowIndex(S, index) == index - S.offset

isValidWindowIndex(S, windowIndex) == windowIndex >= 0 /\ windowIndex < S.windowSize

WindowRemove(S, item, itemId, windowIndex) ==
    LET sourceItems == SourceItems(S, windowSource) IN
    IF S.offset + S.windowSize <= Len(sourceItems)
    THEN LET appendItem == At(sourceItems, S.offset + S.windowSize - 1) IN
         IF appendItem = NoItem THEN Throw(S)
         ELSE WindowRaise(WindowRaise(S,
                  ChangeReplace(item, itemId, windowIndex,
                                appendItem, GetItemId(appendItem), S.windowSize - 1, "false")),
                  ChangeScroll)
    ELSE WindowRaise(WindowRaise(S, ChangeRemove(item, itemId, windowIndex)), ChangeScroll)

\* insert without the test for a full window
WindowInsert_AlwaysInsert(S, item, itemId, windowIndex, isNewlyAdded) ==
    WindowRaise(WindowRaise(S, ChangeInsert(item, itemId, windowIndex, isNewlyAdded)),
                ChangeScroll)

WindowInsert(S, item, itemId, windowIndex, isNewlyAdded) ==
    LET sourceItems == SourceItems(S, windowSource) IN
    IF S.offset + S.windowSize < Len(sourceItems)
    THEN LET removeItem == At(sourceItems, S.offset + S.windowSize) IN
         IF removeItem = NoItem THEN Throw(S)
         ELSE WindowRaise(WindowRaise(S,
                  ChangeReplace(removeItem, GetItemId(removeItem), S.windowSize - 1,
                                item, itemId, windowIndex, isNewlyAdded)),
                  ChangeScroll)
    ELSE WindowRaise(WindowRaise(S, ChangeInsert(item, itemId, windowIndex, isNewlyAdded)),
                     ChangeScroll)

\* the Replace that ends case Move of WindowView.onSourceChanged, for
\* r = <<removeItem, removeIndex, insertItem, insertIndex>>; getItemId of an
\* undefined item throws
WindowReplaceMoved(S, r) ==
    IF r[1] = NoItem \/ r[3] = NoItem THEN Throw(S)
    ELSE WindowRaise(S, ChangeReplace(r[1], GetItemId(r[1]), r[2],
                                      r[3], GetItemId(r[3]), r[4], "false"))

\* case Move of WindowView.onSourceChanged
WindowOnMove(S, event) ==
    LET oldWIndex == toWindowIndex(S, event.oldIndex)
        newWIndex == toWindowIndex(S, event.newIndex)
        wasBefore == oldWIndex < 0
        isBefore == newWIndex < 0
        wasAfter == oldWIndex >= S.windowSize
        isAfter == newWIndex >= S.windowSize
        wasIn == ~wasBefore /\ ~wasAfter
        isIn == ~isBefore /\ ~isAfter
        sourceItems == SourceItems(S, windowSource)
        \* <<removeItem, removeIndex, insertItem, insertIndex>>
        r == CASE wasBefore /\ isAfter ->
                    <<At(sourceItems, S.offset - 1), 0,
                      At(sourceItems, S.offset + S.windowSize - 1), S.windowSize - 1>>
               [] wasAfter /\ isBefore ->
                    <<At(sourceItems, S.offset + S.windowSize), S.windowSize - 1,
                      At(sourceItems, S.offset), 0>>
               [] wasIn /\ isBefore ->
                    <<At(sourceItems, event.newIndex), oldWIndex,
                      At(sourceItems, S.offset), 0>>
               [] wasIn /\ ~isBefore ->
                    <<At(sourceItems, event.newIndex), oldWIndex,
                      At(sourceItems, S.offset + S.windowSize - 1), S.windowSize - 1>>
               [] ~wasIn /\ wasBefore ->
                    <<At(sourceItems, S.offset - 1), 0,
                      At(sourceItems, event.newIndex), newWIndex>>
               [] OTHER ->
                    <<At(sourceItems, S.offset + S.windowSize), S.windowSize - 1,
                      At(sourceItems, event.newIndex), newWIndex>>
    IN  IF (wasBefore /\ isBefore) \/ (wasAfter /\ isAfter) THEN S
        ELSE IF wasIn /\ isIn
        THEN WindowRaise(S, ChangeMove(event.item, event.itemId, oldWIndex, newWIndex))
        ELSE WindowReplaceMoved(S, r)

WindowOnSourceChanged(S, event) ==
    IF S.thrown THEN S
    ELSE CASE event.type = "Insert" ->
                LET windowIndex == toWindowIndex(S, event.newIndex) IN
                IF isValidWindowIndex(S, windowIndex)
                THEN WindowInsert(S, event.item, event.itemId, windowIndex, event.isNewlyAdded)
                ELSE WindowRaise(S, ChangeScroll)
           [] event.type = "Remove" ->
                LET windowIndex == toWindowIndex(S, event.oldIndex) IN
                IF isValidWindowIndex(S, windowIndex)
                THEN WindowRemove(S, event.item, event.itemId, windowIndex)
                ELSE WindowRaise(
                        IF windowIndex < 0 THEN [S EXCEPT !.offset = @ - 1] ELSE S,
                        ChangeScroll)
           [] event.type = "Update" ->
                IF isValidWindowIndex(S, toWindowIndex(S, event.newIndex))
                THEN WindowRaise(S, ChangeUpdate(event.item, event.itemId,
                                                 event.newIndex - S.offset))
                ELSE S
           [] event.type = "Move" -> WindowOnMove(S, event)
           [] event.type \in {"Reset", "Scroll"} -> WindowRaise(S, event)
           [] OTHER -> S    \* the switch has no case for Replace

\* the loop of setWindowOffset scrolling down, from iteration i
RECURSIVE ScrollDown(_, _, _, _)
ScrollDown(S, oldOffset, diff, i) ==
    IF i >= diff THEN S
    ELSE LET its == SourceItems(S, windowSource)
             removeIndex == oldOffset + i
             insertIndex == oldOffset + S.windowSize + i
             validRemove == removeIndex >= 0 /\ removeIndex < Len(its)
             validInsert == insertIndex >= 0 /\ insertIndex < Len(its)
             removeItem == At(its, removeIndex)
             insertItem == At(its, insertIndex)
             S1 == IF ~validRemove THEN S
                   ELSE IF validInsert
                   THEN WindowRaise(S, ChangeReplace(removeItem, GetItemId(removeItem), 0,
                            insertItem, GetItemId(insertItem), S.windowSize - 1, "false"))
                   ELSE WindowRaise(S, ChangeRemove(removeItem, GetItemId(removeItem), 0))
         IN  ScrollDown(S1, oldOffset, diff, i + 1)

\* the loop of setWindowOffset scrolling up, from iteration i downwards
RECURSIVE ScrollUp(_, _)
ScrollUp(S, i) ==
    IF i < 0 THEN S
    ELSE LET its == SourceItems(S, windowSource)
             removeIndex == S.offset + S.windowSize + i
             insertIndex == S.offset + i
             validRemove == removeIndex >= 0 /\ removeIndex < Len(its)
             validInsert == insertIndex >= 0 /\ insertIndex < Len(its)
             removeItem == At(its, removeIndex)
             insertItem == At(its, insertIndex)
             S1 == IF ~validInsert THEN S
                   ELSE IF validRemove
                   THEN WindowRaise(S, ChangeReplace(removeItem, GetItemId(removeItem),
                            S.windowSize - 1, insertItem, GetItemId(insertItem), 0, "false"))
                   ELSE WindowRaise(S, ChangeInsert(insertItem, GetItemId(insertItem), 0, "false"))
         IN  ScrollUp(S1, i - 1)

\* The offset a caller passes is a number that need not be whole. It is
\* counted here in halves: Whole(n) is the integer n, Whole(n) + 1 is n + 0.5
\* and Whole(n) - 1 is n - 0.5
Whole(n) == 2 * n

\* offset |= 0: the fraction is dropped, towards zero (the offsets passed are
\* far from 32 bits, where the conversion would wrap)
Truncate(x) == IF x >= 0 THEN x \div 2 ELSE -((-x) \div 2)

\* setWindowOffset resetting only when more than half the window is moved
setWindowOffset_StrictHalf(S, arg) ==
    LET newOffset == Truncate(arg) IN
    IF S.offset = newOffset THEN S
    ELSE IF newOffset < 0 THEN Throw(S)
    ELSE LET oldOffset == S.offset
             S1 == [S EXCEPT !.offset = newOffset]
             diff == newOffset - oldOffset
         IN  IF 2 * Abs(diff) > S1.windowSize
             THEN WindowRaise(WindowRaise(S1, ChangeReset), ChangeScroll)
             ELSE IF diff > 0
             THEN WindowRaise(ScrollDown(S1, oldOffset, diff, 0), ChangeScroll)
             ELSE WindowRaise(ScrollUp(S1, (-diff) - 1), ChangeScroll)

\* setWindowOffset called with the number arg, counted in halves
setWindowOffset(S, arg) ==
    LET newOffset == Truncate(arg) IN
    IF S.offset = newOffset THEN S
    ELSE IF newOffset < 0 THEN Throw(S)
    ELSE LET oldOffset == S.offset
             S1 == [S EXCEPT !.offset = newOffset]
             diff == newOffset - oldOffset
         IN  IF 2 * Abs(diff) >= S1.windowSize
             THEN WindowRaise(WindowRaise(S1, ChangeReset), ChangeScroll)
             ELSE IF diff > 0
             THEN WindowRaise(ScrollDown(S1, oldOffset, diff, 0), ChangeScroll)
             ELSE WindowRaise(ScrollUp(S1, (-diff) - 1), ChangeScroll)

\* the loop of setWindowSize without the test against the upstream bounds
RECURSIVE GrowWindow_Unclamped(_, _, _)
GrowWindow_Unclamped(S, i, size) ==
    IF i >= size THEN S
    ELSE LET its == SourceItems(S, windowSource)
             item == At(its, i + S.offset)
         IN  GrowWindow_Unclamped(
                 WindowRaise(S, ChangeInsert(item, GetItemId(item), i, "false")),
                 i + 1, size)

\* the loop of setWindowSize growing the window, from window index i
RECURSIVE GrowWindow(_, _, _)
GrowWindow(S, i, size) ==
    IF i >= size THEN S
    ELSE LET its == SourceItems(S, windowSource)
             sourceIndex == i + S.offset
             item == At(its, sourceIndex)
             S1 == IF sourceIndex < 0 \/ sourceIndex >= Len(its) THEN S
                   ELSE WindowRaise(S, ChangeInsert(item, GetItemId(item), i, "false"))
         IN  GrowWindow(S1, i + 1, size)

\* setWindowSize's shrinking loop raising every Remove at the new boundary
RECURSIVE ShrinkWindow_AtBoundary(_, _, _)
ShrinkWindow_AtBoundary(S, i, size) ==
    IF i < size THEN S
    ELSE LET its == SourceItems(S, windowSource)
             sourceIndex == i + S.offset
             item == At(its, sourceIndex)
             S1 == IF sourceIndex < 0 \/ sourceIndex >= Len(its) THEN S
                   ELSE WindowRaise(S, ChangeRemove(item, GetItemId(item), size))
         IN  ShrinkWindow_AtBoundary(S1, i - 1, size)

\* the loop of setWindowSize shrinking the window, from window index i downwards
RECURSIVE ShrinkWindow(_, _, _)
ShrinkWindow(S, i, size) ==
    IF i < size THEN S
    ELSE LET its == SourceItems(S, windowSource)
             sourceIndex == i + S.offset
             item == At(its, sourceIndex)
             S1 == IF sourceIndex < 0 \/ sourceIndex >= Len(its) THEN S
                   ELSE WindowRaise(S, ChangeRemove(item, GetItemId(item), i))
         IN  ShrinkWindow(S1, i - 1, size)

setWindowSize(S, size) ==
    IF S.windowSize = size THEN S
    ELSE IF size < 0 THEN Throw(S)
    ELSE LET oldSize == S.windowSize
             S1 == [S EXCEPT !.windowSize = size]
         IN  IF oldSize < size
             THEN WindowRaise(GrowWindow(S1, oldSize, size), ChangeScroll)
             ELSE WindowRaise(ShrinkWindow(S1, oldSize - 1, size), ChangeScroll)

(* ------------------------- sorting and SortView ------------------------ *)
\* ColumnBase.getSortValue as overridden by the column in use: the item's value
UndefVal == -1

getSortValue(S, o) == S.val[o]

\* the class of the sort column and the option it was constructed with
ColumnClasses == {"ColumnBase", "TextColumn", "NumericColumn"}

ColumnClass == "NumericColumn"

ColumnOption == "Ascending"

\* the number behind a member of the enum SortDirection ("undefined": not set)
SortDirectionValue(d) == IF d = "Descending" THEN 1 ELSE 0

\* getDefaultSortDirection of ColumnBase, TextColumn and NumericColumn for a
\* column constructed with the option defaultSortDirection = option: the test
\* if (options.defaultSortDirection) reads the enum value 0 as "not set"
DefaultSortDirectionOf(class, option) ==
    IF option # "undefined" /\ SortDirectionValue(option) # 0 THEN option
    ELSE IF class = "TextColumn" THEN "Ascending" ELSE "Descending"

\* column.getDefaultSortDirection() of the sort column
getDefaultSortDirection == DefaultSortDirectionOf(ColumnClass, ColumnOption)

compare(a, b, sortDir) ==
    IF a = b THEN 0
    ELSE IF a = UndefVal THEN 1
    ELSE IF b = UndefVal THEN -1
    ELSE IF a < b THEN (IF sortDir = "Ascending" THEN -1 ELSE 1)
    ELSE (IF sortDir = "Ascending" THEN 1 ELSE -1)

\* the comparator closures SortView passes to sort and findInsertionIndex
comparator(S, a, b) == compare(getSortValue(S, a), getSortValue(S, b), S.sortDirection)

\* what one pass through the body of the while loop does
Return(r) == [done |-> TRUE, r |-> r, minIndex |-> 0, maxIndex |-> 0]
Continue(lo, hi) == [done |-> FALSE, r |-> 0, minIndex |-> lo, maxIndex |-> hi]

\* the body of the loop keeping minIndex at the probed index when the target
\* is greater than the probed item
FindIter_NoProgress(S, its, target, lo, hi) ==
    LET index == (lo + hi) \div 2
        item == At(its, index)
    IN  IF item = target
        THEN IF index = 0 THEN Return(lo)
             ELSE IF index = Len(its) - 1 THEN Return(Len(its) - 1)
             ELSE LET orderedBelow == comparator(S, At(its, index - 1), target) < 0
                      orderedAbove == comparator(S, target, At(its, index + 1)) < 0
                  IN  IF orderedBelow = orderedAbove THEN Return(index)
                      ELSE IF orderedBelow THEN Continue(index + 1, hi)
                      ELSE Continue(lo, index - 1)
        ELSE LET comp == comparator(S, target, item) IN
             IF comp = 0 THEN Return(index)
             ELSE IF comp > 0 THEN Continue(index, hi)
             ELSE Continue(lo, index)

\* the body of the while loop of findInsertionIndex, entered with
\* minIndex < maxIndex
FindIter(S, its, target, lo, hi) ==
    LET index == (lo + hi) \div 2
        item == At(its, index)
    IN  IF item = target
        THEN IF index = 0 THEN Return(lo)
             ELSE IF index = Len(its) - 1 THEN Return(Len(its) - 1)
             ELSE LET orderedBelow == comparator(S, At(its, index - 1), target) < 0
                      orderedAbove == comparator(S, target, At(its, index + 1)) < 0
                  IN  IF orderedBelow = orderedAbove THEN Return(index)
                      ELSE IF orderedBelow THEN Continue(index + 1, hi)
                      ELSE Continue(lo, index - 1)
        ELSE LET comp == comparator(S, target, item) IN
             IF comp = 0 THEN Return(index)
             ELSE IF comp > 0 THEN Continue(index + 1, hi)
             ELSE Continue(lo, index)

\* the statements after the loop without the test for a target beyond the end
FindTail_NeverAppends(S, its, target, lo) == lo

\* the statements after the while loop
FindTail(S, its, target, lo) ==
    IF lo = Len(its) - 1 /\ comparator(S, At(its, Len(its) - 1), target) < 0
    THEN Len(its)
    ELSE lo

\* the while loop of findInsertionIndex from (minIndex, maxIndex) = (lo, hi),
\* run to its return: the passes of FindIter one after the other, then FindTail
RECURSIVE FindLoop(_, _, _, _, _)
FindLoop(S, its, target, lo, hi) ==
    IF lo < hi
    THEN LET index == (lo + hi) \div 2
             item == At(its, index)
         IN  IF item = target
             THEN IF index = 0 THEN lo
                  ELSE IF index = Len(its) - 1 THEN Len(its) - 1
                  ELSE LET orderedBelow == comparator(S, At(its, index - 1), target) < 0
                           orderedAbove == comparator(S, target, At(its, index + 1)) < 0
                       IN  IF orderedBelow = orderedAbove THEN index
                           ELSE IF orderedBelow
                           THEN FindLoop(S, its, target, index + 1, hi)
                           ELSE FindLoop(S, its, target, lo, index - 1)
             ELSE LET comp == comparator(S, target, item) IN
                  IF comp = 0 THEN index
                  ELSE IF comp > 0 THEN FindLoop(S, its, target, index + 1, hi)
                  ELSE FindLoop(S, its, target, lo, index)
    ELSE IF lo = Len(its) - 1 /\ comparator(S, At(its, Len(its) - 1), target) < 0
         THEN Len(its)
         ELSE lo

findInsertionIndex(S, its, target) ==
    IF Len(its) = 0 THEN 0 ELSE FindLoop(S, its, target, 0, Len(its) - 1)

\* Array.prototype.sort with the view's comparator (stable)
RECURSIVE SortInto(_, _, _)
SortInto(S, sorted, rest) ==
    IF rest = <<>> THEN sorted
    ELSE LET x == Head(rest)
             k == Cardinality({j \in 1..Len(sorted) : comparator(S, sorted[j], x) <= 0})
         IN  SortInto(S, SubSeq(sorted, 1, k) \o <<x>> \o SubSeq(sorted, k + 1, Len(sorted)),
                      Tail(rest))

ArraySort(S, its) == SortInto(S, <<>>, its)

\* changed.raise of the sort view: the window view (constructed first) and
\* then the consumer of the sort view
SortRaise(S, ev) == raise(S, "sort", ev)

SortReset(S) ==
    SortRaise(IF S.sortColumn # "none" THEN [S EXCEPT !.sItems = ArraySort(S, @)] ELSE S,
              ChangeReset)

\* setSortColumn keeping the direction when the same column is selected again
setSortColumn_NoToggle(S, column) ==
    IF column = "none"
    THEN [S EXCEPT !.sortColumn = "none", !.sortDirection = "Ascending"]
    ELSE SortReset([S EXCEPT
            !.sortDirection = IF S.sortColumn = column THEN @ ELSE getDefaultSortDirection,
            !.sortColumn = column])

setSortColumn(S, column) ==
    IF column = "none"
    THEN [S EXCEPT !.sortColumn = "none", !.sortDirection = "Ascending"]
    ELSE SortReset([S EXCEPT
            !.sortDirection = IF S.sortColumn = column
                              THEN (IF @ = "Ascending" THEN "Descending" ELSE "Ascending")
                              ELSE getDefaultSortDirection,
            !.sortColumn = column])

\* case Move of SortView.onSourceChanged: console.error, nothing else
SortOnMove(S, event) == S

\* case Update of SortView.onSourceChanged: the index where the item is
\* reinserted once it has been taken out at oldIndex
adjustedNewIndex(oldIndex, newIndex) ==
    IF oldIndex < newIndex THEN newIndex - 1 ELSE newIndex

\* the item stays (Update) or is spliced out and in again (Move)
SortReinsert(S, event, oldIndex, adjusted) ==
    IF oldIndex = adjusted
    THEN SortRaise(S, ChangeUpdate(event.item, event.itemId, oldIndex))
    ELSE SortRaise(
            [S EXCEPT !.sItems = SpliceInsert(SpliceRemove(@, oldIndex), adjusted, event.item)],
            ChangeMove(event.item, event.itemId, oldIndex, adjusted))

SortOnUpdate(S, event, oldIndex) ==
    SortReinsert(S, event, oldIndex,
                 adjustedNewIndex(oldIndex,
                                  IF S.sortColumn # "none"
                                  THEN findInsertionIndex(S, S.sItems, event.item)
                                  ELSE oldIndex))

SortOnSourceChanged(S, event) ==
    IF S.thrown THEN S
    ELSE CASE event.type = "Insert" ->
                LET insertIndex == IF S.sortColumn # "none"
                                   THEN findInsertionIndex(S, S.sItems, event.item)
                                   ELSE Len(S.sItems)
                IN  SortRaise([S EXCEPT !.sItems = SpliceInsert(@, insertIndex, event.item)],
                              ChangeInsert(event.item, event.itemId, insertIndex,
                                           event.isNewlyAdded))
           [] event.type = "Remove" ->
                LET index == IndexOf(S.sItems, event.item) IN
                SortRaise([S EXCEPT !.sItems = SpliceRemove(@, index)],
                          ChangeRemove(event.item, event.itemId, index))
           [] event.type = "Update" -> SortOnUpdate(S, event, IndexOf(S.sItems, event.item))
           [] event.type = "Move" -> SortOnMove(S, event)
           [] event.type = "Reset" ->
                SortReset([S EXCEPT !.sItems = SourceItems(S, sortSource)])
           [] event.type = "Scroll" -> SortRaise(S, event)
           [] OTHER -> S    \* the switch has no case for Replace

(* ------------------------------ FilterView ----------------------------- *)
Predicates == {"none", "positive"}

\* !predicate || predicate(item), for the predicate "value > 0"
Passes(S, pred, o) == pred = "none" \/ S.val[o] > 0

BoolStr(b) == IF b THEN "true" ELSE "false"

\* changed.raise of the filter view
FilterRaise(S, ev) == raise(S, "filter", ev)

FilterAppend(S, item, itemId, isNewlyAdded) ==
    LET S1 == [S EXCEPT !.fItems = Append(@, item)] IN
    FilterRaise(S1, ChangeInsert(item, itemId, Len(S1.fItems) - 1, isNewlyAdded))

FilterRemove(S, item, itemId) ==
    LET index == IndexOf(S.fItems, item) IN
    FilterRaise([S EXCEPT !.fItems = SpliceRemove(@, index)],
                ChangeRemove(item, itemId, index))

\* case Reset of FilterView.onSourceChanged: cache and items rebuilt from the source
FilterRebuild(S) ==
    LET sourceItems == S.items
        passing == {k \in 1..Len(sourceItems) : Passes(S, S.predicate, sourceItems[k])}
        keep[k \in 0..Len(sourceItems)] ==
            IF k = 0 THEN <<>>
            ELSE IF k \in passing THEN Append(keep[k - 1], sourceItems[k]) ELSE keep[k - 1]
        \* a later item with the same id overwrites the flag of an earlier one
        flag(id) ==
            LET ks == {k \in 1..Len(sourceItems) : GetItemId(sourceItems[k]) = id} IN
            IF ks = {} THEN "undefined"
            ELSE BoolStr((CHOOSE k \in ks : \A j \in ks : j <= k) \in passing)
    IN  [S EXCEPT !.fItems = keep[Len(sourceItems)],
                  !.itemFilterState = [id \in Ids |-> flag(id)]]

\* a filter view that passes a Move on to its subscribers
FilterOnMove_PassesOn(S, event) == FilterRaise(S, event)

\* case Move of FilterView.onSourceChanged: console.error, nothing else
FilterOnMove(S, event) == S

\* event.item && (!this.predicate || this.predicate(event.item)): for a
\* record that carries no item the value is that item, null or undefined
PassesFilter(S, event) ==
    CASE event.item = NoItem -> "null"
      [] event.item = UndefinedItem -> "undefined"
      [] OTHER -> BoolStr(Passes(S, S.predicate, event.item))

FilterOnSourceChanged(S, event) ==
    IF S.thrown THEN S
    ELSE LET passesFilter == PassesFilter(S, event) IN
         CASE event.type = "Insert" ->
                LET S1 == [S EXCEPT !.itemFilterState[event.itemId] = passesFilter] IN
                IF passesFilter = "true"
                THEN FilterAppend(S1, event.item, event.itemId, event.isNewlyAdded)
                ELSE S1
           [] event.type = "Remove" ->
                IF passesFilter # "true" THEN S
                ELSE FilterRemove([S EXCEPT !.itemFilterState[event.itemId] = "undefined"],
                                  event.item, event.itemId)
           [] event.type = "Update" ->
                LET priorState == S.itemFilterState[event.itemId] IN
                IF priorState = passesFilter
                THEN IF priorState = "true"
                     THEN FilterRaise(S, ChangeUpdate(event.item, event.itemId,
                                                      IndexOf(S.fItems, event.item)))
                     ELSE S
                ELSE LET S1 == [S EXCEPT !.itemFilterState[event.itemId] = passesFilter] IN
                     IF priorState # "true"
                     THEN FilterAppend(S1, event.item, event.itemId, "false")
                     ELSE FilterRemove(S1, event.item, event.itemId)
           [] event.type = "Move" -> FilterOnMove(S, event)
           [] event.type = "Reset" -> FilterRaise(FilterRebuild(S), event)
           [] event.type = "Scroll" -> FilterRaise(S, event)
           [] OTHER -> S    \* the switch has no case for Replace

\* the subscriber of the sort view applies the record to its copy
CallSortConsumer(S, ev) ==
    IF S.thrown \/ "sort" \notin consumers THEN S
    ELSE Returned([Entered(S, "sortConsumer", ev) EXCEPT
                      !.sCopy = Patch(S.sCopy, ev, S.sItems)],
                  "sortConsumer", ev)

\* the subscriber of the window view applies the record to its copy; pulled is
\* the window's getAllItems() when the record is raised
CallWindowConsumer(S, pulled, ev) ==
    IF "window" \notin consumers THEN S
    ELSE Returned([Entered(S, "windowConsumer", ev) EXCEPT
                      !.wCopy = Patch(S.wCopy, ev, pulled)],
                  "windowConsumer", ev)

\* raise calling the subscribers of the root from the last to the first
raise_LastSubscriberFirst(S, view, ev) ==
    IF S.thrown THEN S
    ELSE CASE view = "root" ->
                LET S0 == Raised([S EXCEPT !.rOut = Append(@, ev)], view, ev)
                    S1 == IF windowSource = "root"
                          THEN Returned(WindowOnSourceChanged(Entered(S0, "window", ev), ev),
                                        "window", ev)
                          ELSE S0
                    S2 == IF sortSource = "root"
                          THEN Returned(SortOnSourceChanged(Entered(S1, "sort", ev), ev),
                                        "sort", ev)
                          ELSE S1
                IN  Returned(FilterOnSourceChanged(Entered(S2, "filter", ev), ev),
                             "filter", ev)
           [] view = "filter" ->
                LET S1 == Raised([S EXCEPT !.fOut = Append(@, ev)], view, ev) IN
                IF sortSource = "filter"
                THEN Returned(SortOnSourceChanged(Entered(S1, "sort", ev), ev), "sort", ev)
                ELSE S1
           [] view = "sort" ->
                LET S1 == Raised([S EXCEPT !.sOut = Append(@, ev)], view, ev)
                    S2 == IF windowSource = "sort"
                          THEN Returned(WindowOnSourceChanged(Entered(S1, "window", ev), ev),
                                        "window", ev)
                          ELSE S1
                IN  CallSortConsumer(S2, ev)
           [] OTHER ->
                LET S1 == Raised([S EXCEPT !.wOut = Append(@, ev)], view, ev) IN
                CallWindowConsumer(S1, WindowGetAllItems(S), ev)

\* one callback of a changed event is called with the record: the handler of
\* the filter view, of the sort view and of the window view when it is
\* subscribed to the collection src, and the consumers' callbacks
CallFilter(S, ev) ==
    Returned(FilterOnSourceChanged(Entered(S, "filter", ev), ev), "filter", ev)

CallSort(S, src, ev) ==
    IF sortSource = src
    THEN Returned(SortOnSourceChanged(Entered(S, "sort", ev), ev), "sort", ev)
    ELSE S

CallWindow(S, src, ev) ==
    IF windowSource = src
    THEN Returned(WindowOnSourceChanged(Entered(S, "window", ev), ev), "window", ev)
    ELSE S

\* the subscribers of each changed event, in construction order: the root
\* calls the views built on it, the filter view calls the sort view, the sort
\* view calls the window view and then its consumer, the window view its
\* consumer; a throwing callback ends the dispatch
raise(S, view, ev) ==
    IF S.thrown THEN S
    ELSE CASE view = "root" ->
                CallWindow(
                    CallSort(CallFilter(Raised([S EXCEPT !.rOut = Append(@, ev)], view, ev), ev),
                             "root", ev),
                    "root", ev)
           [] view = "filter" ->
                CallSort(Raised([S EXCEPT !.fOut = Append(@, ev)], view, ev), "filter", ev)
           [] view = "sort" ->
                CallSortConsumer(
                    CallWindow(Raised([S EXCEPT !.sOut = Append(@, ev)], view, ev), "sort", ev),
                    ev)
           [] OTHER ->
                CallWindowConsumer(Raised([S EXCEPT !.wOut = Append(@, ev)], view, ev),
                                   WindowGetAllItems(S), ev)

\* the loop of setPredicate over the source items, from position k (1-based):
\* R.st is the cache, R.filtered the passing items, R.hasChange the flag
RECURSIVE PredicateLoop(_, _, _, _)
PredicateLoop(S, pred, k, R) ==
    IF k > Len(S.items) THEN R
    ELSE LET item == S.items[k]
             itemId == GetItemId(item)
             passesFilter == Passes(S, pred, item)
             changed == R.st[itemId] # BoolStr(passesFilter)
         IN  PredicateLoop(S, pred, k + 1,
                [st |-> IF changed THEN [R.st EXCEPT ![itemId] = BoolStr(passesFilter)]
                        ELSE R.st,
                 filtered |-> IF passesFilter THEN Append(R.filtered, item) ELSE R.filtered,
                 hasChange |-> R.hasChange \/ changed])

\* setPredicate raising Reset and Scroll whether or not a flag changed
setPredicate_AlwaysResets(S, pred) ==
    LET R == PredicateLoop(S, pred, 1,
                 [st |-> S.itemFilterState, filtered |-> <<>>, hasChange |-> FALSE])
        S1 == [S EXCEPT !.predicate = pred, !.itemFilterState = R.st]
    IN  FilterRaise(FilterRaise([S1 EXCEPT !.fItems = R.filtered], ChangeReset),
                    ChangeScroll)

setPredicate(S, pred) ==
    LET R == PredicateLoop(S, pred, 1,
                 [st |-> S.itemFilterState, filtered |-> <<>>, hasChange |-> FALSE])
        S1 == [S EXCEPT !.predicate = pred, !.itemFilterState = R.st]
    IN  IF R.hasChange
        THEN FilterRaise(FilterRaise([S1 EXCEPT !.fItems = R.filtered], ChangeReset),
                         ChangeScroll)
        ELSE S1

(* ------------------------------ DataSource ----------------------------- *)
\* changed.raise of the root collection: the views in construction order
RootRaise(S, ev) == raise(S, "root", ev)

\* add without the duplicate-id check
add_Unchecked(S, item) ==
    LET itemId == GetItemId(item)
        S1 == [S EXCEPT !.subs[item] = @ + 1, !.items = Append(@, item)]
        S2 == RootRaise(S1, ChangeInsert(item, itemId, Len(S1.items) - 1, "true"))
    IN  IF S2.thrown THEN S2 ELSE [S2 EXCEPT !.itemById[itemId] = item]

\* add announcing the length after the push as the index
add_IndexIsLength(S, item) ==
    LET itemId == GetItemId(item) IN
    IF S.itemById[itemId] # NoItem THEN Throw(S)
    ELSE LET S1 == [S EXCEPT !.subs[item] = @ + 1, !.items = Append(@, item)]
             S2 == RootRaise(S1, ChangeInsert(item, itemId, Len(S1.items), "true"))
         IN  IF S2.thrown THEN S2 ELSE [S2 EXCEPT !.itemById[itemId] = item]

add(S, item) ==
    LET itemId == GetItemId(item) IN
    IF S.itemById[itemId] # NoItem THEN Throw(S)
    ELSE LET S1 == [S EXCEPT !.subs[item] = @ + 1, !.items = Append(@, item)]
             S2 == RootRaise(S1, ChangeInsert(item, itemId, Len(S1.items) - 1, "true"))
         IN  IF S2.thrown THEN S2 ELSE [S2 EXCEPT !.itemById[itemId] = item]

\* the loop of addRange, from position i (1-based) of the range
RECURSIVE AddRangeLoop(_, _, _)
AddRangeLoop(S, range, i) ==
    IF i > Len(range) THEN S
    ELSE LET item == range[i]
             itemId == GetItemId(item)
         IN  IF S.itemById[itemId] # NoItem THEN Throw(S)
             ELSE AddRangeLoop([S EXCEPT !.subs[item] = @ + 1,
                                         !.items = Append(@, item),
                                         !.itemById[itemId] = item],
                               range, i + 1)

\* addRange raising Reset without the Scroll after it
addRange_NoScroll(S, range) == RootRaise(AddRangeLoop(S, range, 1), ChangeReset)

addRange(S, range) ==
    RootRaise(RootRaise(AddRangeLoop(S, range, 1), ChangeReset), ChangeScroll)

removeAt(S, index) ==
    LET removed == SpliceRemoved(S.items, index)
        itemId == GetItemId(removed)
    IN  RootRaise([S EXCEPT !.items = SpliceRemove(@, index),
                            !.itemById[itemId] = NoItem],
                  ChangeRemove(removed, itemId, index))

move(S, oldIndex, newIndex) ==
    LET item == SpliceRemoved(S.items, oldIndex) IN
    RootRaise([S EXCEPT !.items = SpliceInsert(SpliceRemove(@, oldIndex), newIndex, item)],
              ChangeMove(item, GetItemId(item), oldIndex, newIndex))

reset(S) == RootRaise(S, ChangeReset)

clear(S) == reset([S EXCEPT !.items = <<>>, !.itemById = [id \in Ids |-> NoItem]])

\* NotifyChange.notifyChange of an item: each closure subscribeItemUpdates
\* registered on it raises an Update at the item's current index
RECURSIVE notifyChange(_, _, _)
notifyChange(S, item, i) ==
    IF i >= S.subs[item] THEN S
    ELSE notifyChange(
            RootRaise(S, ChangeUpdate(item, GetItemId(item), IndexOf(S.items, item))),
            item, i + 1)

(* ------------------------------ the calls ------------------------------ *)
\* the state after construction of the views named by the topology:
\* ss is the source of the sort view, ws the source of the window view
\* ("none" when that view is not constructed)
InitViews(ss, ws, cs, cp) ==
    /\ val = [o \in Obj |-> 0]
    /\ items = <<>>
    /\ itemById = [id \in Ids |-> NoItem]
    /\ subs = [o \in Obj |-> 0]
    /\ fItems = <<>>
    /\ itemFilterState = [id \in Ids |-> "undefined"]
    /\ predicate = "none"
    /\ sItems = <<>>
    /\ sortColumn = "none"
    /\ sortDirection = "Ascending"
    /\ offset = 0
    /\ windowSize = MaxWin
    /\ sortSource = ss /\ windowSource = ws
    /\ sCopy = <<>>
    /\ wCopy = <<>>
    /\ consumers = cs
    /\ cap = cp
    /\ lastOp = [op |-> "new", threw |-> FALSE]
    /\ callbacks = <<>>
    /\ everSubscribed = {}
    /\ phase = "idle"
    /\ loopIndex = 0
    /\ invoked = <<>>
    /\ atStart = <<>>
    /\ collectorAt = -1

\* findInsertionIndex is not being called on its own
FindIdle ==
    /\ findItems = <<>> /\ findTarget = NoItem
    /\ findVal = [o \in Obj |-> 0] /\ findDir = "Ascending"
    /\ findPc = "idle" /\ minIndex = 0 /\ maxIndex = 0 /\ findResult = 0

InitWith(ss, ws, cs, cp) == InitViews(ss, ws, cs, cp) /\ FindIdle

\* the caller adds each of the first n items at most MaxSubs times; with
\* again = 1, item 1 once more
Caps(n, again) ==
    [o \in Obj |-> IF o > n THEN 0 ELSE IF o = 1 THEN MaxSubs + again ELSE MaxSubs]

\* root -> filter -> sort -> window
Init == InitWith("filter", "sort", {}, Caps(NObj - 1, 0))

\* root -> filter
InitFilter == InitWith("none", "none", {}, Caps(NObj, 1))

\* root -> filter -> sort
InitSort == InitWith("filter", "none", {}, Caps(NObj - 1, 1))

\* the caps that keep the reachable states finite
Bounded(R) ==
    /\ R.offset >= -MaxNeg
    /\ Len(R.items) <= MaxLen /\ Len(R.fItems) <= MaxLen /\ Len(R.sItems) <= MaxLen
    /\ Len(R.sCopy) <= MaxLen /\ Len(R.wCopy) <= MaxLen

\* a consumer is followed until what it holds first differs from its view
InSync ==
    /\ "sort" \in consumers => sCopy = sItems
    /\ "window" \in consumers =>
            wCopy = Slice(SourceItems(Cur, windowSource), offset, offset + windowSize)

\* the state after a call that ran from Cur to R
Becomes(R, op, a, b) ==
    /\ InSync
    /\ Bounded(R)
    /\ val' = R.val /\ items' = R.items /\ itemById' = R.itemById /\ subs' = R.subs
    /\ fItems' = R.fItems /\ itemFilterState' = R.itemFilterState
    /\ predicate' = R.predicate
    /\ sItems' = R.sItems /\ sortColumn' = R.sortColumn
    /\ sortDirection' = R.sortDirection
    /\ offset' = R.offset /\ windowSize' = R.windowSize
    /\ sCopy' = R.sCopy /\ wCopy' = R.wCopy
    /\ lastOp' = [op |-> op, threw |-> R.thrown]
    /\ UNCHANGED <<sortSource, windowSource, consumers, cap>>
    /\ UNCHANGED eventVars
    /\ UNCHANGED findVars

\* the items the caller works with
objs == {o \in Obj : cap[o] > 0}

\* the values the caller may have given the items before the call: an item
\* that was never added is constructed with any value
Fresh(vs) == \A o \in Obj : subs[o] > 0 => vs[o] = val[o]

Add ==
    \E o \in objs, vs \in [Obj -> Vals] :
        /\ Fresh(vs) /\ \A p \in Obj \ {o} : vs[p] = val[p]
        /\ subs[o] < cap[o]
        /\ Becomes(add([Cur EXCEPT !.val = vs], o), "add", o, 0)

Ranges == UNION {[1..n -> Obj] : n \in 0..MaxRange}

AddRange ==
    \E range \in {r \in Ranges : \A k \in 1..Len(r) : r[k] \in objs}, vs \in [Obj -> Vals] :
        /\ Fresh(vs) /\ \A p \in Obj : (\A k \in 1..Len(range) : range[k] # p) => vs[p] = val[p]
        /\ \A o \in Obj :
              subs[o] + Cardinality({k \in 1..Len(range) : range[k] = o}) <= cap[o]
        /\ Becomes(addRange([Cur EXCEPT !.val = vs], range), "addRange", range, 0)

RemoveAt ==
    \E index \in 0..(Len(items) - 1) :
        Becomes(removeAt(Cur, index), "removeAt", index, 0)

Move ==
    \E oldIndex, newIndex \in 0..(Len(items) - 1) :
        Becomes(move(Cur, oldIndex, newIndex), "move", oldIndex, newIndex)

Clear == Becomes(clear(Cur), "clear", 0, 0)

Reset == Becomes(reset(Cur), "reset", 0, 0)

\* an item's value is set and the item calls notifyChange()
Mutate ==
    \E o \in objs, v \in Vals :
        /\ subs[o] > 0
        /\ Becomes(notifyChange([Cur EXCEPT !.val[o] = v], o, 0), "notifyChange", o, v)

SetPredicate ==
    \E pred \in Predicates :
        Becomes(setPredicate(Cur, pred), "setPredicate", pred, 0)

SetSortColumn ==
    \E column \in {"none", "value"} :
        Becomes(setSortColumn(Cur, column), "setSortColumn", column, 0)

\* the offsets callers pass, in halves: -1, -0.5, 0, 0.5, ... MaxWin + 0.5
OffsetArgs == Whole(-1)..(Whole(MaxWin) + 1)

SetWindowOffset ==
    \E n \in OffsetArgs :
        Becomes(setWindowOffset(Cur, n), "setWindowOffset", n, 0)

SetWindowSize ==
    \E n \in -1..MaxWin :
        Becomes(setWindowSize(Cur, n), "setWindowSize", n, 0)

Next ==
    \/ Add \/ AddRange \/ RemoveAt \/ Move \/ Clear \/ Reset \/ Mutate
    \/ SetPredicate \/ SetSortColumn \/ SetWindowOffset \/ SetWindowSize

NextFilter ==
    \/ Add \/ AddRange \/ RemoveAt \/ Move \/ Clear \/ Reset \/ Mutate
    \/ SetPredicate

NextSort ==
    \/ Add \/ AddRange \/ RemoveAt \/ Move \/ Clear \/ Reset \/ Mutate
    \/ SetPredicate \/ SetSortColumn

Spec == Init /\ [][Next]_vars

SpecFilter == InitFilter /\ [][NextFilter]_vars

SpecSort == InitSort /\ [][NextSort]_vars

\* root -> filter -> sort with a Grid's handler subscribed to the sort view
InitSortDiff == InitWith("filter", "none", {"sort"}, Caps(NObj - 1, 1))

SpecSortDiff == InitSortDiff /\ [][NextSort]_vars

\* root -> filter -> sort -> window, each view constructed by the caller, with
\* the index-applying consumer subscribed to the window view
InitWindowDiff == InitWith("filter", "sort", {"window"}, Caps(NObj - 1, 0))

SpecWindowDiff == InitWindowDiff /\ [][Next]_vars

\* root -> filter -> sort, with the window view subscribed to the root after
\* the filter view
InitSiblings == InitWith("filter", "root", {}, Caps(NObj - 1, 0))

SpecSiblings == InitSiblings /\ [][Next]_vars

\* root -> filter, where the caller only adds items and changes their values
NextAdd == Add \/ Mutate

SpecAdd == InitFilter /\ [][NextAdd]_vars

\* root -> window, the filter view idle beside it
InitWindow == InitWith("none", "root", {}, Caps(NObj, 0))

NextWindow ==
    \/ Add \/ AddRange \/ RemoveAt \/ Move \/ Clear \/ Reset \/ Mutate
    \/ SetWindowOffset \/ SetWindowSize

SpecWindow == InitWindow /\ [][NextWindow]_vars

(* -------------------- findInsertionIndex on its own -------------------- *)
\* the arrays findInsertionIndex is called with
FindArrays == UNION {[1..n -> Obj] : n \in 0..MaxLen}

\* the sort values of the items: a number or undefined
SortValues == Vals \cup {UndefVal}

\* the state the comparator closure reads
FindState == [Cur EXCEPT !.val = findVal, !.sortDirection = findDir]

\* a call findInsertionIndex(items, target, comparator) is about to start
InitFind ==
    /\ InitViews("none", "none", {}, Caps(0, 0))
    /\ findItems \in FindArrays /\ findTarget \in Obj
    /\ findVal \in [Obj -> SortValues] /\ findDir \in {"Ascending", "Descending"}
    /\ findPc = "called" /\ minIndex = 0 /\ maxIndex = 0 /\ findResult = 0

\* the statements before the loop
FindEnter ==
    /\ findPc = "called"
    /\ IF Len(findItems) = 0
       THEN findPc' = "done" /\ findResult' = 0 /\ UNCHANGED <<minIndex, maxIndex>>
       ELSE /\ findPc' = "loop" /\ minIndex' = 0 /\ maxIndex' = Len(findItems) - 1
            /\ UNCHANGED findResult
    /\ UNCHANGED <<findItems, findTarget, findVal, findDir, pipelineVars>>
    /\ UNCHANGED eventVars

\* the loop test holds: one pass through the body
FindStep ==
    /\ findPc = "loop" /\ minIndex < maxIndex
    /\ LET n == FindIter(FindState, findItems, findTarget, minIndex, maxIndex) IN
       IF n.done
       THEN findPc' = "done" /\ findResult' = n.r /\ UNCHANGED <<minIndex, maxIndex>>
       ELSE /\ minIndex' = n.minIndex /\ maxIndex' = n.maxIndex
            /\ UNCHANGED <<findPc, findResult>>
    /\ UNCHANGED <<findItems, findTarget, findVal, findDir, pipelineVars>>
    /\ UNCHANGED eventVars

\* the loop test fails: the statements after the loop
FindReturn ==
    /\ findPc = "loop" /\ ~(minIndex < maxIndex)
    /\ findPc' = "done"
    /\ findResult' = FindTail(FindState, findItems, findTarget, minIndex)
    /\ UNCHANGED <<minIndex, maxIndex>>
    /\ UNCHANGED <<findItems, findTarget, findVal, findDir, pipelineVars>>
    /\ UNCHANGED eventVars

NextFind == FindEnter \/ FindStep \/ FindReturn

SpecFind == InitFind /\ [][NextFind]_vars

\* the call is not suspended forever
SpecFindLive == SpecFind /\ WF_vars(NextFind)

\* the handlers subscribed to the changed event of a collection, in the order
\* in which they subscribed
Subscribers(view) ==
    CASE view = "root" ->
            <<"filter">> \o (IF sortSource = "root" THEN <<"sort">> ELSE <<>>)
                         \o (IF windowSource = "root" THEN <<"window">> ELSE <<>>)
      [] view = "filter" -> IF sortSource = "filter" THEN <<"sort">> ELSE <<>>
      [] view = "sort" ->
            (IF windowSource = "sort" THEN <<"window">> ELSE <<>>)
            \o (IF "sort" \in consumers THEN <<"sortConsumer">> ELSE <<>>)
      [] OTHER -> IF "window" \in consumers THEN <<"windowConsumer">> ELSE <<>>

\* the collection a handler is subscribed to
SourceOf(who) ==
    CASE who = "filter" -> "root"
      [] who = "sort" -> sortSource
      [] who = "window" -> windowSource
      [] who = "sortConsumer" -> "sort"
      [] OTHER -> "window"

\* the results of every call a caller can make in the current state
CallResults ==
    {add(Cur, o) : o \in objs}
    \cup {addRange(Cur, r) : r \in {q \in Ranges : \A k \in 1..Len(q) : q[k] \in objs}}
    \cup {removeAt(Cur, i) : i \in 0..(Len(items) - 1)}
    \cup {move(Cur, ij[1], ij[2]) : ij \in (0..(Len(items) - 1)) \X (0..(Len(items) - 1))}
    \cup {clear(Cur), reset(Cur)}
    \cup {notifyChange([Cur EXCEPT !.val[ov[1]] = ov[2]], ov[1], 0) : ov \in objs \X Vals}
    \cup {setPredicate(Cur, pred) : pred \in Predicates}
    \cup {setSortColumn(Cur, column) : column \in {"none", "value"}}
    \cup {setWindowOffset(Cur, n) : n \in OffsetArgs}
    \cup {setWindowSize(Cur, n) : n \in -1..MaxWin}

(* -------------------------------- Event -------------------------------- *)
Callbacks == 1..NCallbacks

\* Event.subscribe: the list after callbacks.push(callback)
subscribe(cbs, callback) == Append(cbs, callback)

\* the closure subscribe returns: the list after it ran (unchanged, with a
\* warning, when indexOf finds no such callback)
unsubscribe(cbs, callback) ==
    LET index == IndexOf(cbs, callback) IN
    IF index = -1 THEN cbs ELSE SpliceRemove(cbs, index)

\* a callback a => args.push(a) that a collect call subscribed: every call
\* makes a closure of its own, and only that call holds its unsubscribe closure
Collector == NCallbacks + 1

\* cancelSubscription() at the end of collect: the closure it subscribed is
\* found by indexOf at the index it has now, and spliced out
cancelSubscription(cbs, index) ==
    IF index = -1 THEN cbs ELSE SpliceRemove(cbs, index)

\* the index of the running collect's closure after callback c was
\* unsubscribed from cbs
CollectorAfter(cbs, c, at) ==
    IF IndexOf(cbs, c) # -1 /\ IndexOf(cbs, c) < at THEN at - 1 ELSE at

\* what the body of a callback may do to the event that is invoking it;
\* the collector's body only pushes the record to its array
Reentrant(cbs, ever, at, running) ==
    {[cbs |-> cbs, ever |-> ever, at |-> at]}
    \cup {[cbs |-> unsubscribe(cbs, c), ever |-> ever, at |-> CollectorAfter(cbs, c, at)] :
              c \in {d \in ever : running # Collector}}
    \cup {[cbs |-> subscribe(cbs, c), ever |-> ever \cup {c}, at |-> at] :
              c \in {d \in Callbacks : running # Collector /\ Len(cbs) < MaxCallbacks}}

Subscribe ==
    /\ phase # "raising" /\ Len(callbacks) < MaxCallbacks
    /\ \E c \in Callbacks :
          /\ callbacks' = subscribe(callbacks, c)
          /\ everSubscribed' = everSubscribed \cup {c}
    /\ phase' = "idle"
    /\ UNCHANGED <<loopIndex, invoked, atStart, collectorAt, pipelineVars, findVars>>

Unsubscribe ==
    /\ phase # "raising"
    /\ \E c \in everSubscribed :
          /\ callbacks' = unsubscribe(callbacks, c)
          /\ collectorAt' = CollectorAfter(callbacks, c, collectorAt)
    /\ phase' = "idle"
    /\ UNCHANGED <<everSubscribed, loopIndex, invoked, atStart, pipelineVars, findVars>>

\* collect(handler) is entered: the collector is subscribed and handler(args)
\* starts; what the handler does to the event are the steps that follow
CollectBegin ==
    /\ phase # "raising" /\ collectorAt = -1 /\ Len(callbacks) < MaxCallbacks
    /\ callbacks' = subscribe(callbacks, Collector)
    /\ collectorAt' = Len(callbacks)
    /\ phase' = "idle"
    /\ UNCHANGED <<everSubscribed, loopIndex, invoked, atStart, pipelineVars, findVars>>

\* handler(args) returns: cancelSubscription() runs and collect returns
CollectReturn ==
    /\ phase # "raising" /\ collectorAt # -1
    /\ callbacks' = cancelSubscription(callbacks, collectorAt)
    /\ collectorAt' = -1
    /\ phase' = "idle"
    /\ UNCHANGED <<everSubscribed, loopIndex, invoked, atStart, pipelineVars, findVars>>

\* handler(args) throws: the exception leaves collect before cancelSubscription()
CollectThrow ==
    /\ phase # "raising" /\ collectorAt # -1
    /\ collectorAt' = -1
    /\ phase' = "idle"
    /\ UNCHANGED <<callbacks, everSubscribed, loopIndex, invoked, atStart, pipelineVars, findVars>>

\* raise(item) is entered: i = 0
RaiseBegin ==
    /\ phase # "raising"
    /\ phase' = "raising" /\ loopIndex' = 0 /\ invoked' = <<>> /\ atStart' = callbacks
    /\ UNCHANGED <<callbacks, everSubscribed, collectorAt, pipelineVars, findVars>>

\* callbacks[i](item) runs: its body may subscribe or unsubscribe on the same
\* event
Invoke ==
    /\ phase = "raising" /\ loopIndex < Len(callbacks)
    /\ invoked' = Append(invoked, At(callbacks, loopIndex))
    /\ \E body \in Reentrant(callbacks, everSubscribed, collectorAt, At(callbacks, loopIndex)) :
          /\ callbacks' = body.cbs
          /\ everSubscribed' = body.ever
          /\ collectorAt' = body.at
    /\ UNCHANGED <<atStart, pipelineVars, findVars>>

\* one iteration of the loop: the callback returns, then i++
RaiseStep ==
    /\ Invoke
    /\ loopIndex' = loopIndex + 1
    /\ UNCHANGED phase

\* the callback throws: the exception leaves the loop and raise
RaiseThrow ==
    /\ Invoke
    /\ At(callbacks, loopIndex) # Collector
    /\ phase' = "threw"
    /\ UNCHANGED loopIndex

\* the loop condition i < callbacks.length fails: raise returns
RaiseEnd ==
    /\ phase = "raising" /\ loopIndex >= Len(callbacks)
    /\ phase' = "raised"
    /\ UNCHANGED <<callbacks, everSubscribed, loopIndex, invoked, atStart, collectorAt,
                   pipelineVars, findVars>>

NextEvent ==
    \/ Subscribe \/ Unsubscribe \/ CollectBegin \/ CollectReturn \/ CollectThrow
    \/ RaiseBegin \/ RaiseStep \/ RaiseThrow \/ RaiseEnd

SpecEvent == Init /\ [][NextEvent]_vars

(* ------------------------------ the claims ----------------------------- *)
\* the items of its that pass pred, in the order of its
RECURSIVE FilterOf(_, _)
FilterOf(its, pred) ==
    IF its = <<>> THEN <<>>
    ELSE (IF Passes(Cur, pred, Head(its)) THEN <<Head(its)>> ELSE <<>>)
         \o FilterOf(Tail(its), pred)

IdsDistinct(its) ==
    \A j, k \in 1..Len(its) : j # k => GetItemId(its[j]) # GetItemId(its[k])

IsSorted(S, its) ==
    \A k \in 1..(Len(its) - 1) : comparator(S, its[k], its[k + 1]) <= 0

\* the upstream items at the indices of [off, off + size) that exist upstream
Clamped(its, off, size) == SubSeq(its, Max(off, 0) + 1, Min(off + size, Len(its)))

\* C1: the filter view's items are exactly the root items that pass the
\* current predicate (all of them when there is none), in root order
C1_FilterSubsetLaw == fItems = FilterOf(items, predicate)

\* C2: while a sort column is set, every adjacent pair of the sort view is
\* ordered by the comparator under the active direction
C2_SortTotalOrder == sortColumn # "none" => IsSorted(Cur, sItems)

\* C3: offset and size are never negative and the window's items are the
\* upstream slice [offset, offset + size) clamped to the upstream length
C3_WindowContainment ==
    /\ offset >= 0 /\ windowSize >= 0
    /\ WindowGetAllItems(Cur) = Clamped(SourceItems(Cur, windowSource), offset, windowSize)

\* C4: add of an item whose id is not in the collection is accepted (the item
\* is appended, registered and announced by one Insert); add of an item whose
\* id is in the collection throws, changes neither the sequence nor the id map
\* and raises nothing
C4_AddIdentityUniqueness ==
    \A o \in Obj :
        LET R == add(Cur, o)
            present == \E k \in 1..Len(items) : GetItemId(items[k]) = GetItemId(o)
        IN  IF present
            THEN R.thrown /\ R.items = items /\ R.itemById = itemById /\ R.rOut = <<>>
            ELSE /\ ~R.thrown
                 /\ R.items = Append(items, o)
                 /\ R.itemById = [itemById EXCEPT ![GetItemId(o)] = o]
                 /\ R.rOut = <<ChangeInsert(o, GetItemId(o), Len(items), "true")>>

C4_Witness ==
    /\ lastOp.op = "add" /\ lastOp.threw
    /\ Len(items) = 1 /\ itemById[GetItemId(items[1])] = items[1]

\* C5: an addRange that throws on a repeated id leaves the sequence and the
\* id map as they were before the call
C5_AddRangeAtomic ==
    [][(lastOp'.op = "addRange" /\ lastOp'.threw)
          => (items' = items /\ itemById' = itemById)]_vars

\* C6: in the root collection and in the filter, sort and window views the
\* ids of the items are pairwise distinct
C6_IdsUnique ==
    /\ IdsDistinct(items) /\ IdsDistinct(fItems) /\ IdsDistinct(sItems)
    /\ IdsDistinct(WindowGetAllItems(Cur))

\* C7: the copy of a consumer that starts from the window's getAllItems() and
\* applies every record the window raises by the index it carries equals the
\* window's getAllItems() after every call
C7_WindowDiffPrecision == "window" \in consumers => wCopy = WindowGetAllItems(Cur)

\* C8: the copy of a consumer that starts from the sort view's getAllItems()
\* and applies every record the sort view raises by the index it carries
\* equals the sort view's getAllItems() after every call
C8_SortDiffPrecision == "sort" \in consumers => sCopy = sItems

\* C9: an Update for an item of the sort view that is still in order where it
\* stands raises exactly one Update at its index and leaves the sequence alone
C9_UpdateMinimality ==
    \A o \in objs, v \in Vals :
        LET S == [Cur EXCEPT !.val[o] = v]
            i == IndexOf(sItems, o)
            R == SortOnSourceChanged(S, ChangeUpdate(o, GetItemId(o), i))
        IN  (sortColumn # "none" /\ i >= 0 /\ IsSorted(S, sItems))
                => (R.sOut = <<ChangeUpdate(o, GetItemId(o), i)>> /\ R.sItems = sItems)

\* C10: when raise returns, it has invoked exactly the callbacks that were
\* subscribed when it started, each once and in subscription order
C10_DispatchSnapshot == phase = "raised" => invoked = atStart

\* the log of one call from entry i on, with the handlers running at that
\* point in stack: a record is raised by the running handler (or by the called
\* method), the first subscriber is entered right after the raise, each later
\* subscriber right after the one before it returned, a handler returns only
\* when it is the innermost one running, and none is left running at the end
RECURSIVE DepthFirstFrom(_, _, _)
DepthFirstFrom(L, i, stack) ==
    IF i > Len(L) THEN stack = <<>>
    ELSE LET e == L[i]
             top == IF stack = <<>> THEN "caller" ELSE stack[Len(stack)]
             entersNext(who) ==
                 i < Len(L) /\ L[i + 1] = [kind |-> "call", who |-> who, ev |-> e.ev]
         IN  CASE e.kind = "raise" ->
                    LET s == Subscribers(e.who) IN
                    /\ top \in {"caller", e.who}
                    /\ s # <<>> => entersNext(s[1])
                    /\ DepthFirstFrom(L, i + 1, stack)
               [] e.kind = "call" ->
                    LET s == Subscribers(SourceOf(e.who))
                        k == IndexOf(s, e.who) + 1
                        p == L[i - 1]
                    IN  /\ i > 1 /\ k >= 1 /\ p.ev = e.ev
                        /\ IF k = 1 THEN p.kind = "raise" /\ p.who = SourceOf(e.who)
                           ELSE p.kind = "return" /\ p.who = s[k - 1]
                        /\ DepthFirstFrom(L, i + 1, Append(stack, e.who))
               [] OTHER ->
                    LET s == Subscribers(SourceOf(e.who))
                        k == IndexOf(s, e.who) + 1
                    IN  /\ top = e.who
                        /\ k < Len(s) => entersNext(s[k + 1])
                        /\ DepthFirstFrom(L, i + 1, SubSeq(stack, 1, Len(stack) - 1))

\* C11: in every call that returns, the records are delivered depth-first and
\* in subscription order, and every record raised anywhere in the chain has
\* been handled by every subscriber of its collection before the call returns
C11_DepthFirstDispatch ==
    \A R \in CallResults : ~R.thrown => DepthFirstFrom(R.log, 1, <<>>)

\* a removal whose record reaches the filter view, through it the sort view,
\* and only then the window view subscribed to the root
C11_Witness ==
    /\ lastOp.op \in {"add", "addRange"} /\ ~lastOp.threw
    /\ \E idx \in 0..(Len(items) - 1) :
          LET L == removeAt(Cur, idx).log IN
          \E i, j, k \in 1..Len(L) :
              /\ i < j /\ j < k
              /\ L[i].kind = "call" /\ L[i].who = "filter" /\ L[i].ev.type = "Remove"
              /\ L[j].kind = "return" /\ L[j].who = "sort" /\ L[j].ev.type = "Remove"
              /\ L[k].kind = "call" /\ L[k].who = "window" /\ L[k].ev = L[i].ev

\* C12: calling an unsubscribe closure a second time removes nothing: the
\* subscriber list is the same as after its first call, also when the same
\* callback function is subscribed more than once
C12_DoubleUnsubscribe ==
    \A c \in everSubscribed :
        unsubscribe(unsubscribe(callbacks, c), c) = unsubscribe(callbacks, c)

\* C13: once collect is over, whether handler returned or threw, its
\* temporary collector is no longer subscribed to the event
C13_CollectUnsubscribes ==
    collectorAt = -1 => \A k \in 1..Len(callbacks) : callbacks[k] # Collector

\* a call starts with nothing raised yet
Quiet(S) == [S EXCEPT !.rOut = <<>>, !.fOut = <<>>, !.sOut = <<>>, !.wOut = <<>>,
                      !.log = <<>>]

\* C14: setPredicate(p) raises Reset and then Scroll, with the filter view's
\* items rebuilt as the root items passing p, exactly when the cached flag of
\* some root item differs from what p gives for it; otherwise it raises
\* nothing and keeps the items; either way the flags of the root items are
\* then those of p, so that applying p once more raises nothing
C14_SetPredicateIffChange ==
    \A pred \in Predicates :
        LET R == setPredicate(Cur, pred)
            flagChanged ==
                \E k \in 1..Len(items) :
                    itemFilterState[GetItemId(items[k])] # BoolStr(Passes(Cur, pred, items[k]))
        IN  /\ ~R.thrown /\ R.predicate = pred
            /\ \A k \in 1..Len(items) :
                  R.itemFilterState[GetItemId(items[k])] = BoolStr(Passes(Cur, pred, items[k]))
            /\ IF flagChanged
               THEN R.fOut = <<ChangeReset, ChangeScroll>> /\ R.fItems = FilterOf(items, pred)
               ELSE R.fOut = <<>> /\ R.fItems = fItems
            /\ setPredicate(Quiet(R), pred).fOut = <<>>

C14_Witness ==
    /\ lastOp.op = "setPredicate" /\ predicate = "positive"
    /\ fItems # <<>> /\ Len(fItems) < Len(items)
    /\ setPredicate(Cur, "none").fOut = <<ChangeReset, ChangeScroll>>
    /\ setPredicate(Cur, "positive").fOut = <<>>

\* the keys setSortColumn is called with
SortColumns == {"none", "value"}

\* C15: every setSortColumn(key), the key none included, raises exactly one
\* Reset from the sort view and leaves the view sorted by the key
C15_SetSortColumnResets ==
    \A column \in SortColumns :
        LET R == setSortColumn(Cur, column) IN
        /\ R.sOut = <<ChangeReset>>
        /\ column # "none" => R.sItems = ArraySort(R, sItems)

\* C16: setSortColumn(none) while a column is active leaves the sort view
\* equal to its source, in the source's order, with the direction ascending
C16_ClearSortKey ==
    sortColumn # "none" =>
        LET R == setSortColumn(Cur, "none") IN
        /\ R.sItems = SourceItems(R, sortSource)
        /\ R.sortColumn = "none" /\ R.sortDirection = "Ascending"

\* C17: setSortColumn(c) stores c; it flips the direction when c is the
\* current column, takes c's default direction when c is another column and
\* ascending when c is none; no other call changes the column or the direction
C17_SortDirectionMachine ==
    [][/\ \A column \in SortColumns :
             LET R == setSortColumn(Cur, column) IN
             /\ R.sortColumn = column
             /\ R.sortDirection =
                    IF column = "none" THEN "Ascending"
                    ELSE IF column = sortColumn
                    THEN (IF sortDirection = "Ascending" THEN "Descending" ELSE "Ascending")
                    ELSE getDefaultSortDirection
       /\ lastOp'.op # "setSortColumn" => UNCHANGED <<sortColumn, sortDirection>>]_vars

\* the same column was selected twice: its default direction was flipped
C17_Witness ==
    /\ lastOp.op = "setSortColumn" /\ sortColumn = "value"
    /\ sortDirection # getDefaultSortDirection /\ Len(sItems) >= 2

\* C18: a column of any of the three classes constructed with the option
\* defaultSortDirection = d reports d as its default direction, and selecting
\* the column as a new sort key sets the view's direction to the option
C18_DefaultSortDirection ==
    /\ \A class \in ColumnClasses, d \in {"Ascending", "Descending"} :
          DefaultSortDirectionOf(class, d) = d
    /\ sortColumn = "none" => setSortColumn(Cur, "value").sortDirection = ColumnOption

\* the Move records a view can be handed for the items it may hold
MoveRecords ==
    {ChangeMove(o, GetItemId(o), ij[1], ij[2]) :
        o \in objs, ij \in (0..(MaxLen - 1)) \X (0..(MaxLen - 1))}

\* C19: the filter view and the sort view handed a Move raise nothing and
\* stay as they are, items and cache included; so a move in the root
\* collection reaches no subscriber of the filter view
C19_MoveDropped ==
    /\ \A ev \in MoveRecords :
          /\ FilterOnSourceChanged(Cur, ev) = Cur
          /\ SortOnSourceChanged(Cur, ev) = Cur
    /\ \A i, j \in 0..(Len(items) - 1) :
          LET R == move(Cur, i, j) IN
          /\ R.fOut = <<>> /\ R.sOut = <<>>
          /\ R.fItems = fItems /\ R.itemFilterState = itemFilterState
          /\ R.sItems = sItems

\* after a move the root has another order than the views, which kept theirs
C19_Witness ==
    /\ lastOp.op = "move" /\ ~lastOp.threw
    /\ predicate = "none" /\ Len(items) >= 2
    /\ fItems # items /\ sItems = fItems
    /\ \A k \in 1..Len(items) : \E m \in 1..Len(fItems) : fItems[m] = items[k]

\* C20: an addRange that returns has appended the whole range in order and
\* raised exactly Reset and then Scroll from the root, and the window view at
\* the end of the chain has raised exactly Reset and then Scroll; it returns
\* whenever no id of the range is in the collection or repeated in the range
C20_AddRangeResetScroll ==
    \A range \in {q \in Ranges : \A k \in 1..Len(q) : q[k] \in objs} :
        LET R == addRange(Cur, range)
            repeated ==
                \/ \E k \in 1..Len(range) : itemById[GetItemId(range[k])] # NoItem
                \/ \E j, k \in 1..Len(range) :
                      j # k /\ GetItemId(range[j]) = GetItemId(range[k])
        IN  /\ R.thrown <=> repeated
            /\ ~R.thrown =>
                  /\ R.items = items \o range
                  /\ R.rOut = <<ChangeReset, ChangeScroll>>
                  /\ R.wOut = <<ChangeReset, ChangeScroll>>

\* an addRange has returned, every item has been added once, and the window
\* shows them
C20_Witness ==
    /\ lastOp.op = "addRange" /\ ~lastOp.threw
    /\ Len(items) = MaxRange /\ subs = [o \in Obj |-> IF o \in objs THEN 1 ELSE 0]
    /\ Len(WindowGetAllItems(Cur)) = MaxRange

\* f[1] + ... + f[n]
RECURSIVE SumTo(_, _)
SumTo(f, n) == IF n = 0 THEN 0 ELSE f[n] + SumTo(f, n - 1)

\* C21: in a collection that starts empty and is only added to, with no
\* predicate and no sort, the k-th add that returns raises exactly one Insert
\* of the added item at index k - 1, the last index, with isNewlyAdded true,
\* and appends the item, so that the items stay in insertion order
C21_AddsInOrder ==
    [][LET k == SumTo(subs, NObj) + 1 IN
       IF lastOp'.op = "add" /\ ~lastOp'.threw
       THEN \E o \in Obj :
               /\ subs' = [subs EXCEPT ![o] = @ + 1]
               /\ add([Cur EXCEPT !.val = val'], o).rOut
                      = <<ChangeInsert(o, GetItemId(o), k - 1, "true")>>
               /\ items' = Append(items, o)
               /\ Len(items') = k
       ELSE items' = items]_vars

\* the second add has returned
C21_Witness ==
    /\ lastOp.op = "add" /\ ~lastOp.threw
    /\ SumTo(subs, NObj) = 2 /\ Len(items) = 2 /\ items[1] # items[2]
    /\ predicate = "none"

\* what C22 says the filter view does with an Update for item o in state S
UpdateAsClaimed(S, o) ==
    LET itemId == GetItemId(o)
        prior == S.itemFilterState[itemId]
        now == BoolStr(Passes(S, S.predicate, o))
        i == IndexOf(S.fItems, o)
        R == FilterOnSourceChanged(S, ChangeUpdate(o, itemId, IndexOf(S.items, o)))
    IN  /\ (prior = "true" /\ now = "true") =>
              i >= 0 /\ R.fOut = <<ChangeUpdate(o, itemId, i)>> /\ R.fItems = S.fItems
        /\ (prior = "false" /\ now = "false") => R.fOut = <<>> /\ R.fItems = S.fItems
        /\ (prior = "false" /\ now = "true") =>
              /\ R.fOut = <<ChangeInsert(o, itemId, Len(S.fItems), "false")>>
              /\ R.fItems = Append(S.fItems, o)
        /\ (prior = "true" /\ now = "false") =>
              /\ i >= 0 /\ R.fOut = <<ChangeRemove(o, itemId, i)>>
              /\ R.fItems = SpliceRemove(S.fItems, i)

\* C22: an Update the root raises for one of its items is answered by the
\* filter view with one Update at the item's index in the view when its flag
\* stays true, nothing when it stays false, one Insert at the tail with
\* isNewlyAdded false when it turns true, and one Remove at the item's index
\* when it turns false
C22_FilterUpdate ==
    \A o \in objs, v \in Vals :
        (subs[o] > 0 /\ IndexOf(items, o) >= 0)
            => UpdateAsClaimed([Cur EXCEPT !.val[o] = v], o)

\* the offsets and sizes the caller asks the window view for
WindowArgs == 0..MaxWin

\* the offsets of C23, in halves: 0, 0.5, 1, ... MaxWin + 0.5
WholeOrHalf == 0..(Whole(MaxWin) + 1)

\* C23 as stated: setWindowOffset(n) with n >= 0 and |n - offset| at least
\* half the window size raises exactly Reset and then Scroll and sets the
\* offset to n
C23_ResetAtHalf_AsStated ==
    \A n \in WholeOrHalf :
        2 * Abs(n - Whole(offset)) >= Whole(windowSize) =>
            LET R == setWindowOffset(Cur, n) IN
            ~R.thrown /\ R.wOut = <<ChangeReset, ChangeScroll>> /\ Whole(R.offset) = n

\* C23: setWindowOffset(n) with n >= 0 and t the whole part of n: when t is
\* not the current offset and |t - offset| is at least half the window size,
\* exactly half included, the call raises exactly Reset and then Scroll, no
\* per-row record, and sets the offset to t; when t is the current offset
\* the call raises nothing and changes nothing
C23_ResetAtHalf ==
    \A n \in WholeOrHalf :
        LET R == setWindowOffset(Cur, n)
            t == CHOOSE k \in 0..MaxWin : Whole(k) <= n /\ n < Whole(k + 1)
        IN  /\ (t # offset /\ 2 * Abs(t - offset) >= windowSize) =>
                  ~R.thrown /\ R.wOut = <<ChangeReset, ChangeScroll>> /\ R.offset = t
            /\ t = offset => R = Cur

\* a window of size 2 over two or more items was moved to offset 1: moving it
\* to 2.5 moves it by one, half its size, which resets and leaves it at 2,
\* and moving it to 1.5 does nothing
C23_Witness ==
    /\ lastOp.op = "setWindowOffset" /\ ~lastOp.threw
    /\ windowSize = 2 /\ offset = 1 /\ Len(SourceItems(Cur, windowSource)) >= 2
    /\ setWindowOffset(Cur, Whole(2) + 1).wOut = <<ChangeReset, ChangeScroll>>
    /\ setWindowOffset(Cur, Whole(2) + 1).offset = 2
    /\ setWindowOffset(Cur, Whole(1) + 1) = Cur

\* C24: setWindowSize growing the window from s to t raises, for the window
\* indices i from s to t - 1 in increasing order, one Insert at i of the
\* upstream item at offset + i where there is one and nothing where there is
\* none, and then exactly one Scroll; the size is then t
C24_GrowInserts ==
    \A t \in WindowArgs :
        t > windowSize =>
            LET R == setWindowSize(Cur, t)
                its == SourceItems(Cur, windowSource)
                lo == Max(windowSize, -offset)
                hi == Min(t - 1, Len(its) - offset - 1)
                n == Max(hi - lo + 1, 0)
            IN  /\ ~R.thrown /\ R.windowSize = t /\ R.offset = offset
                /\ Len(R.wOut) = n + 1
                /\ R.wOut[n + 1] = ChangeScroll
                /\ \A k \in 1..n :
                      LET i == lo + k - 1
                          item == its[offset + i + 1]
                      IN  R.wOut[k] = ChangeInsert(item, GetItemId(item), i, "false")

\* an emptied window over one item: growing it to two rows raises one Insert
\* for row 0, nothing for row 1, and Scroll
C24_Witness ==
    /\ lastOp.op = "setWindowSize" /\ ~lastOp.threw
    /\ windowSize = 0 /\ offset = 0 /\ Len(SourceItems(Cur, windowSource)) = 1
    /\ Len(setWindowSize(Cur, 2).wOut) = 2
    /\ setWindowSize(Cur, 2).wOut[1].type = "Insert"

\* the negative offsets and sizes the caller asks the window view for
NegativeArgs == (-MaxNeg)..(-1)

\* C25: setWindowOffset and setWindowSize called with a negative number throw,
\* raise nothing and leave the offset, the size and everything else as before
C25_NegativeRejected ==
    \A n \in NegativeArgs :
        /\ setWindowOffset(Cur, Whole(n)) = Throw(Cur)
        /\ setWindowSize(Cur, n) = Throw(Cur)

\* the call made step by step returns what findInsertionIndex returns
FindAgrees ==
    findPc = "done" => findResult = findInsertionIndex(FindState, findItems, findTarget)

\* the positions of x in its
Positions(its, x) == {k \in 1..Len(its) : its[k] = x}

\* C26: for an array that holds the target once and is sorted by the
\* comparator once the target is left out, taking the target out and putting
\* it back at the returned index (one less when the returned index is greater
\* than the target's old index) gives an array sorted by the comparator
C26_ReinsertSorted ==
    (/\ findPc = "done"
     /\ Cardinality(Positions(findItems, findTarget)) = 1
     /\ IsSorted(FindState, SpliceRemove(findItems, IndexOf(findItems, findTarget))))
        => LET oldIndex == IndexOf(findItems, findTarget)
               adjusted == IF oldIndex < findResult THEN findResult - 1 ELSE findResult
           IN  IsSorted(FindState,
                        SpliceInsert(SpliceRemove(findItems, oldIndex), adjusted, findTarget))

\* C27: for an array sorted by the comparator and a target that is not in
\* it, the returned index r is in 0..length, every item before r compares <=
\* the target and every item from r on compares >= the target
C27_InsertionIndex ==
    (/\ findPc = "done"
     /\ Positions(findItems, findTarget) = {}
     /\ IsSorted(FindState, findItems))
        => /\ 0 <= findResult /\ findResult <= Len(findItems)
           /\ \A k \in 1..Len(findItems) :
                 IF k <= findResult
                 THEN comparator(FindState, findItems[k], findTarget) <= 0
                 ELSE comparator(FindState, findItems[k], findTarget) >= 0

\* a target new to a sorted array of three goes between a smaller and a
\* greater item
C27_Witness ==
    /\ findPc = "done" /\ Positions(findItems, findTarget) = {}
    /\ Len(findItems) = MaxLen /\ IsSorted(FindState, findItems)
    /\ findResult > 0 /\ findResult < Len(findItems)
    /\ comparator(FindState, findItems[1], findTarget) < 0
    /\ comparator(FindState, findItems[Len(findItems)], findTarget) > 0

\* C28: every call of findInsertionIndex returns, whatever the array, the
\* target and the sort values, also when the target is in the array and
\* when several items compare equal to it
C28_Terminates == <>(findPc = "done")

\* a call has returned after more than one pass through the loop, for a
\* target that is in the array beside another item comparing equal to it
C28_Witness ==
    /\ findPc = "done" /\ Len(findItems) = MaxLen
    /\ Positions(findItems, findTarget) # {}
    /\ Cardinality({k \in 1..Len(findItems) :
            comparator(FindState, findItems[k], findTarget) = 0}) >= 2
    /\ minIndex > 0

\* index lies in [offset, offset + size) of the window in state S
InWindow(S, index) == S.offset <= index /\ index < S.offset + S.windowSize

\* C29: when an add makes the window's source raise an Insert at an index
\* outside [offset, offset + size), before the window or after it, the window
\* raises exactly one Scroll and shows the same items as before the add
C29_InsertOutside ==
    \A o \in objs, v \in Vals :
        (subs[o] = 0 \/ v = val[o]) =>
            LET R == add([Cur EXCEPT !.val[o] = v], o) IN
            (/\ ~R.thrown /\ Len(R.sOut) = 1 /\ R.sOut[1].type = "Insert"
             /\ ~InWindow(Cur, R.sOut[1].newIndex))
                => /\ R.wOut = <<ChangeScroll>>
                   /\ WindowGetAllItems(R) = WindowGetAllItems(Cur)

\* the calls that returned and made the window's source raise exactly one
\* Insert, Remove or Update, at an index inside the window
InsideCalls ==
    {R \in CallResults :
        /\ ~R.thrown /\ Len(R.sOut) = 1
        /\ R.sOut[1].type \in {"Insert", "Remove", "Update"}
        /\ InWindow(Cur, IF R.sOut[1].type = "Remove" THEN R.sOut[1].oldIndex
                          ELSE R.sOut[1].newIndex)}

\* C30 as stated: the window answers an Insert, Remove or Update inside
\* [offset, offset + size) with a record of the same variant for the same
\* item at the index minus offset
C30_SameVariant_AsStated ==
    \A R \in InsideCalls :
        LET e == R.sOut[1] IN
        /\ R.wOut # <<>>
        /\ R.wOut[1].type = e.type /\ R.wOut[1].item = e.item
        /\ R.wOut[1].itemId = e.itemId
        /\ IF e.type = "Remove" THEN R.wOut[1].oldIndex = e.oldIndex - offset
           ELSE R.wOut[1].newIndex = e.newIndex - offset

\* C30: the window answers an Update inside [offset, offset + size) with one
\* Update at the index minus offset; an Insert inside with an Insert at the
\* index minus offset, or, when the window was full, with a Replace of the
\* row it pushes out (at size - 1) by the inserted item; a Remove inside with
\* a Remove at the index minus offset, or, when an item beyond the window
\* moves in, with a Replace of the removed item by that item (at size - 1);
\* each Insert, Remove and Replace is followed by one Scroll
C30_Translated ==
    \A R \in InsideCalls :
        LET e == R.sOut[1]
            its == SourceItems(Cur, windowSource)
            last == At(its, offset + windowSize - 1)
            beyond == At(its, offset + windowSize)
        IN  CASE e.type = "Update" ->
                    R.wOut = <<ChangeUpdate(e.item, e.itemId, e.newIndex - offset)>>
              [] e.type = "Insert" ->
                    R.wOut = <<IF last # NoItem
                               THEN ChangeReplace(last, GetItemId(last), windowSize - 1,
                                                  e.item, e.itemId, e.newIndex - offset,
                                                  e.isNewlyAdded)
                               ELSE ChangeInsert(e.item, e.itemId, e.newIndex - offset,
                                                 e.isNewlyAdded),
                               ChangeScroll>>
              [] OTHER ->
                    R.wOut = <<IF beyond # NoItem
                               THEN ChangeReplace(e.item, e.itemId, e.oldIndex - offset,
                                                  beyond, GetItemId(beyond), windowSize - 1,
                                                  "false")
                               ELSE ChangeRemove(e.item, e.itemId, e.oldIndex - offset),
                               ChangeScroll>>

\* a full window of one row over a sorted source: an item added in front of
\* the visible one is announced by a Replace, a change of the visible item's
\* value by an Update
C30_Witness ==
    /\ windowSize = 1 /\ offset = 0 /\ sortColumn = "value" /\ Len(sItems) = 1
    /\ \E R \in InsideCalls : R.sOut[1].type = "Insert" /\ R.wOut[1].type = "Replace"
    /\ \E R \in InsideCalls : R.sOut[1].type = "Update" /\ R.wOut[1].type = "Update"
    /\ \E R \in InsideCalls : R.sOut[1].type = "Remove" /\ R.wOut[1].type = "Remove"

\* the records the window's source raised during the call that ended in R
SourceOut(R) ==
    CASE windowSource = "root" -> R.rOut
      [] windowSource = "filter" -> R.fOut
      [] windowSource = "sort" -> R.sOut
      [] OTHER -> <<>>

\* the calls that returned and made the window's source raise exactly one
\* Remove, at an index outside the window
RemoveOutsideCalls ==
    {R \in CallResults :
        /\ ~R.thrown /\ Len(SourceOut(R)) = 1 /\ SourceOut(R)[1].type = "Remove"
        /\ ~InWindow(Cur, SourceOut(R)[1].oldIndex)}

\* C31: a Remove of the window's source at an index before the window makes
\* the window decrement its offset by one, keep its size, show the same items
\* as before and raise exactly one Scroll; a Remove after the window changes
\* neither offset nor size and raises exactly one Scroll
C31_RemoveOutside ==
    \A R \in RemoveOutsideCalls :
        /\ R.wOut = <<ChangeScroll>> /\ R.windowSize = windowSize
        /\ IF SourceOut(R)[1].oldIndex < offset
           THEN R.offset = offset - 1 /\ WindowGetAllItems(R) = WindowGetAllItems(Cur)
           ELSE R.offset = offset

\* the set of items the window shows in state S
Visible(S) == {WindowGetAllItems(S)[k] : k \in 1..Len(WindowGetAllItems(S))}

\* the calls that returned and made the window's source raise exactly one Move
MoveCalls ==
    {R \in CallResults :
        ~R.thrown /\ Len(SourceOut(R)) = 1 /\ SourceOut(R)[1].type = "Move"}

\* C32: on a Move of its source the window raises nothing if both endpoints
\* are before the window or both after it, exactly one Move from
\* (oldIndex - offset) to (newIndex - offset) if both are inside, and otherwise
\* exactly one Replace whose old item is the one item that left the visible
\* range and whose new item is the one item that entered it
C32_MoveVariants ==
    \A R \in MoveCalls :
        LET e == SourceOut(R)[1]
            bothBefore == e.oldIndex < offset /\ e.newIndex < offset
            bothAfter == e.oldIndex >= offset + windowSize
                            /\ e.newIndex >= offset + windowSize
        IN  IF bothBefore \/ bothAfter THEN R.wOut = <<>>
            ELSE IF InWindow(Cur, e.oldIndex) /\ InWindow(Cur, e.newIndex)
            THEN R.wOut = <<ChangeMove(e.item, e.itemId, e.oldIndex - offset,
                                       e.newIndex - offset)>>
            ELSE /\ Len(R.wOut) = 1 /\ R.wOut[1].type = "Replace"
                 /\ Visible(Cur) \ Visible(R) = {R.wOut[1].oldItem}
                 /\ Visible(R) \ Visible(Cur) = {R.wOut[1].item}

\* the Removes for the window indices idx, in that order, of the rows that
\* exist in the window's source
RemovesOf(idx) ==
    LET its == SourceItems(Cur, windowSource)
        Exists(i) == i + offset >= 0 /\ i + offset < Len(its)
        ex == SelectSeq(idx, Exists)
    IN  [k \in 1..Len(ex) |->
            ChangeRemove(At(its, ex[k] + offset), GetItemId(At(its, ex[k] + offset)), ex[k])]

\* C33 as stated: shrinking from s to t < s raises one Remove for each newly
\* hidden row that exists upstream, at the window indices t, t+1, ..., s-1 in
\* that order, followed by exactly one Scroll
C33_ShrinkOutward_AsStated ==
    \A t \in 0..(windowSize - 1) :
        setWindowSize(Cur, t).wOut =
            RemovesOf([k \in 1..(windowSize - t) |-> t + k - 1]) \o <<ChangeScroll>>

\* C33: shrinking from s to t < s raises one Remove for each newly hidden row
\* that exists upstream, at the window indices s-1, s-2, ..., t in that order
\* (from the old boundary inward), followed by exactly one Scroll
C33_ShrinkInward ==
    \A t \in 0..(windowSize - 1) :
        setWindowSize(Cur, t).wOut =
            RemovesOf([k \in 1..(windowSize - t) |-> windowSize - k]) \o <<ChangeScroll>>

\* a window of two shown rows that shrinks to size 0 with two Removes
C33_Witness ==
    /\ windowSize = 2 /\ Len(WindowGetAllItems(Cur)) = 2
    /\ Len(setWindowSize(Cur, 0).wOut) = 3

\* C34: on a Remove from the root the filter view decides by visibility: a
\* visible item is removed with exactly one Remove at its visible index, an
\* item that is not visible raises nothing and leaves the visible sequence
\* unchanged, and in both cases the cache has no entry for the removed id
C34_RemoveByVisibility ==
    \A i \in 0..(Len(items) - 1) :
        LET o == At(items, i)
            index == IndexOf(fItems, o)
            R == removeAt(Cur, i)
        IN  ~R.thrown =>
                /\ R.itemFilterState[GetItemId(o)] = "undefined"
                /\ IF index # -1
                   THEN /\ R.fItems = SpliceRemove(fItems, index)
                        /\ R.fOut = <<ChangeRemove(o, GetItemId(o), index)>>
                   ELSE R.fItems = fItems /\ R.fOut = <<>>

\* the identifiers of the items of a sequence
IdsOf(its) == {GetItemId(its[k]) : k \in 1..Len(its)}

\* C35: the pass-flag cache has an entry for exactly the identifiers of the
\* items in the root, and the identifiers in the visible sequence are exactly
\* those whose cached flag is true
C35_CacheInvariant ==
    /\ {id \in Ids : itemFilterState[id] # "undefined"} = IdsOf(items)
    /\ IdsOf(fItems) = {id \in Ids : itemFilterState[id] = "true"}

\* C36: for an item that is in the root collection, notifyChange() makes the
\* root raise exactly one Update carrying the item's id and its current index
C36_OneUpdate ==
    \A k \in 1..Len(items) :
        notifyChange(Cur, items[k], 0).rOut =
            <<ChangeUpdate(items[k], GetItemId(items[k]), IndexOf(items, items[k]))>>

\* C37: when an item added with the root's add becomes visible in a
\* downstream view, the record announcing it, an Insert or a Replace, carries
\* isNewlyAdded = true
C37_NewlyAddedKept ==
    \A o \in objs :
        LET R == add(Cur, o) IN
        ~R.thrown =>
            \A out \in {R.rOut, R.fOut, R.sOut, R.wOut} :
                \A k \in 1..Len(out) :
                    (out[k].type \in {"Insert", "Replace"} /\ out[k].item = o)
                        => out[k].isNewlyAdded = "true"

\* C38: once an item has left the root collection through removeAt or clear,
\* its notifyChange() raises no record from the root and changes neither the
\* filter view's, the sort view's nor the window view's items
C38_StaleNotifyIgnored ==
    \A o \in objs, v \in Vals :
        (subs[o] > 0 /\ IndexOf(items, o) = -1) =>
            LET R == notifyChange([Cur EXCEPT !.val[o] = v], o, 0) IN
            /\ R.rOut = <<>>
            /\ R.fItems = fItems /\ R.sItems = sItems
            /\ WindowGetAllItems(R) = WindowGetAllItems(Cur)

\* DataSource.add step by step, so that the state a subscriber observes during
\* the delivery of the Insert is a state of the specification; lastOp.op is
\* the position inside add: "addPush" after the push, "addRaise" after the
\* views' handlers have run, "add" once add has returned or thrown
AddIdle == lastOp.op \notin {"addPush", "addRaise"}

\* the id check finds the id in itemById: add throws before it changed anything
AddReject ==
    \E o \in objs, vs \in [Obj -> Vals] :
        /\ AddIdle
        /\ Fresh(vs) /\ \A p \in Obj \ {o} : vs[p] = val[p]
        /\ subs[o] < cap[o]
        /\ itemById[GetItemId(o)] # NoItem
        /\ Becomes(Throw([Cur EXCEPT !.val = vs]), "add", o, 0)

\* the id check passes, subscribeItemUpdates and items.push
AddPush ==
    \E o \in objs, vs \in [Obj -> Vals] :
        /\ AddIdle
        /\ Fresh(vs) /\ \A p \in Obj \ {o} : vs[p] = val[p]
        /\ subs[o] < cap[o]
        /\ itemById[GetItemId(o)] = NoItem
        /\ Becomes([Cur EXCEPT !.val = vs, !.subs[o] = @ + 1, !.items = Append(@, o)],
                   "addPush", o, 0)

\* changed.raise of the Insert: the views' handlers run
AddRaise ==
    /\ lastOp.op = "addPush"
    /\ LET item == items[Len(items)] IN
       Becomes(RootRaise(Cur, ChangeInsert(item, GetItemId(item), Len(items) - 1, "true")),
               "addRaise", item, 0)

\* a later subscriber's handler throws: raise and add end with the exception
AddThrow ==
    /\ lastOp.op = "addRaise"
    /\ Becomes(Throw(Cur), "add", 0, 0)

\* every handler returned: the identifier map gets its entry
AddStore ==
    /\ lastOp.op = "addRaise"
    /\ LET item == items[Len(items)] IN
       Becomes([Cur EXCEPT !.itemById[GetItemId(item)] = item], "add", item, 0)

NextAddSteps ==
    \/ AddReject
    \/ AddPush
    \/ AddRaise
    \/ AddThrow
    \/ AddStore
    \/ (AddIdle /\ RemoveAt)
    \/ (AddIdle /\ Clear)
    \/ (AddIdle /\ Mutate)

SpecAddSteps == InitFilter /\ [][NextAddSteps]_vars

\* C39: in the states a caller observes, also after a handler threw out of
\* add, the identifiers of the items in getAllItems() are the keys of the
\* identifier map, and getById(id) returns the item of the sequence
C39_IdsMatchMap ==
    /\ IdsOf(items) = {id \in Ids : itemById[id] # NoItem}
    /\ \A k \in 1..Len(items) : itemById[GetItemId(items[k])] = items[k]

\* how often x occurs in a sequence
Count(its, x) == Cardinality({k \in 1..Len(its) : its[k] = x})

\* C40: between operations the sort view's sequence is a permutation of its
\* source's current sequence: the same items, each exactly once
C40_SortIsPermutation ==
    \A x \in Obj :
        /\ Count(sItems, x) = Count(SourceItems(Cur, sortSource), x)
        /\ Count(sItems, x) <= 1

====
